---- MODULE Spec2Model ----
(***************************************************************************)
(* Fallback router of mcp-flow/routers-server (core/router.py): the        *)
(* bounded TTL cache, the retry loop around every backend call and the     *)
(* tiered resolution pipeline of Router.handle_problem; and the async      *)
(* cache of 02-mcp-flow (utils/cache.py) with its per-key locks and its    *)
(* background sweep.                                                       *)
(*                                                                         *)
(* Python values are modelled as records so that any two of them can be    *)
(* compared: a dict is the record of its keys, None is the record None,    *)
(* a list or a string is Val(s), the empty list or string is Empty.        *)
(***************************************************************************)
EXTENDS Integers, Sequences, FiniteSets, TLC

\* ------------------------------------------------------------------ bounds
MaxTtl == 2
MaxSize == 1
MaxAttempts == 2
MaxTime == 1
MaxCalls == 2
MaxEntries == 2
MaxSweeps == 1
MaxTries == 3
MaxDelay == 2

Descs == {"d1", "d2"}
Procs == {"p1", "p2"}
SeqProcs == {"p1"}
Keys == {"k1", "k2", "k3"}
Tasks == {"t1", "t2"}
Sweeps == 1..MaxSweeps

\* ------------------------------------------------------------------ values
None == [none |-> TRUE]
Val(s) == [val |-> s]
Empty == Val("")

\* Python truthiness of a value the router tests with `if x:`.
Truthy(v) == v # None /\ v # Empty

\* dict.get(key, default)
Get(d, k, default) == IF k \in DOMAIN d THEN d[k] ELSE default

NoEntries == [k \in {} |-> None]

\* The values stored in a cache that is used directly: neither class looks
\* at the value it stores.
Vals == {Val("a")}

\* asyncio.Lock that is not held.
Free == "free"

\* No call in progress, no sweep task.
NoArgs == [key |-> "", oldest |-> "", task |-> 0]
NoSweep == [st |-> "none", wake |-> 0, waits |-> ""]

\* The outcome of a cache call that raised instead of returning a value.
Raised == [raised |-> "ValueError"]

VARIABLES
    config,       \* Router.config["router"]["retry"] and Router.cache (None or a Cache)
    cache,        \* Cache.cache: key -> value
    timestamps,   \* Cache.timestamps: key -> insertion time
    order,        \* iteration order of the two dicts (insertion order of the keys)
    now,          \* datetime.now()
    pc,           \* per call of handle_problem: the statement it is at
    desc,         \* problem_description
    attempt,      \* loop variable of _retry_operation
    response,     \* the local `response` of _generate_embeddings
    solution,     \* the local `solution` of handle_problem
    result,       \* what handle_problem returned
    called,       \* the call sites at which the current call has issued a backend call
    clean,        \* no backend call of the current call raised or answered an error dict
    tookError,    \* _retry_operation handed an error dict to the current call as a value
    graphWrites,  \* CREATE queries the graph backend observed from the current call
    vectorAdds,   \* add_vectors calls the vector backend observed from the current call
    endAt,        \* time at which this caller's last call returned
    prevCall,     \* the call this caller completed just before the current one, if it
                  \* was for the same description and returned a solution
    ncalls        \* handle_problem calls started so far

VARIABLES
    servers,      \* config["router"]["servers"]: per backend enabled, disabled or absent
    clients,      \* Router.clients: the names that have a Client
    life,         \* where the router is between its construction and its shutdown
    attempted     \* the clients on which Router.close has called close()

VARIABLES
    rpc,          \* the call of _retry_operation under study: the await it is at
    tries,        \* the outcomes of the calls of operation() it has made, in order
    waits,        \* the arguments of the asyncio.sleep calls it has made, in order
    outcome       \* what it returned or raised

VARIABLES
    phase,        \* BaseMCPServer.run: the statement the server process is at
    invoked,      \* the last call of a cache_decorator wrapper has called its function
    wret          \* what the last call of a cache_decorator wrapper returned

VARIABLES
    cacheClass,   \* the Cache class at hand: "sync" (router.py) or "async" (utils/cache.py)
    locks,        \* Cache.locks: key -> the task holding the key's lock, or Free
    tpc,          \* per task using the cache: idle, or the await it is suspended at
    targ,         \* the arguments and locals of the call a task is suspended in
    ret,          \* what the cache call that completed last returned, or Raised
    cleanupTask,  \* Cache._cleanup_task: 0 (None) or the sweep task it refers to
    sweep         \* the sweep tasks created so far, each a run of _cleanup_loop

vars == <<config, cache, timestamps, order, now, pc, desc, attempt, response, solution,
          result, called, clean, tookError, graphWrites, vectorAdds, endAt, prevCall,
          ncalls, cacheClass, locks, tpc, targ, ret, cleanupTask, sweep,
          servers, clients, life, attempted, rpc, tries, waits, outcome,
          phase, invoked, wret>>

cacheVars == <<cache, timestamps, order>>
histVars == <<called, clean, tookError, graphWrites, vectorAdds>>
callVars == <<pc, desc, attempt, response, solution, result, histVars, endAt, prevCall,
              ncalls>>
asyncVars == <<cacheClass, locks, tpc, targ, ret, cleanupTask, sweep>>
registryVars == <<servers, clients, life, attempted>>
retryVars == <<rpc, tries, waits, outcome>>
serverVars == <<phase, invoked, wret>>

\* ------------------------------------------------------------------ Cache (router.py)
CacheConfigs == {None} \cup [ttl : 0..MaxTtl, max_size : 0..MaxSize]

HasCache == config.cache # None

\* Cache.get: the value returned.
CacheGetValue(key) ==
    IF key \in DOMAIN cache /\ now - timestamps[key] < config.cache.ttl
    THEN cache[key]
    ELSE None

Without(f, key) == [k \in DOMAIN f \ {key} |-> f[k]]
With(f, key, v) == [k \in DOMAIN f \cup {key} |-> IF k = key THEN v ELSE f[k]]
SeqWithout(s, key) == SelectSeq(s, LAMBDA k : k # key)
SeqWith(s, key) == IF \E i \in 1..Len(s) : s[i] = key THEN s ELSE Append(s, key)

\* Cache.get: an expired entry is deleted as a side effect.
CacheGetExpires(key) ==
    key \in DOMAIN cache /\ ~(now - timestamps[key] < config.cache.ttl)

\* min(self.timestamps.keys(), key=...): the first key, in dict order, whose
\* timestamp is minimal.
OldestKey ==
    LET i == CHOOSE i \in 1..Len(order) :
                 /\ \A j \in 1..Len(order) : timestamps[order[i]] <= timestamps[order[j]]
                 /\ \A j \in 1..(i - 1) : timestamps[order[j]] > timestamps[order[i]]
    IN order[i]

\* Cache.set raises ValueError: min() of an empty sequence.
CacheSetRaises == Cardinality(DOMAIN cache) >= config.cache.max_size /\ Len(order) = 0

Evicts == Cardinality(DOMAIN cache) >= config.cache.max_size

\* Cache.set: the three dict states after a set that does not raise.
CacheAfterSet(key, value) ==
    LET c1 == IF Evicts THEN Without(cache, OldestKey) ELSE cache
        t1 == IF Evicts THEN Without(timestamps, OldestKey) ELSE timestamps
        o1 == IF Evicts THEN SeqWithout(order, OldestKey) ELSE order
    IN  <<With(c1, key, value), With(t1, key, now), SeqWith(o1, key)>>

\* ------------------------------------------------------------------ backends
\* The call sites of handle_problem, in program order.
Sites == {"exact", "embed", "to_vector", "vsearch", "fetch",
          "websearch", "synth", "store_graph", "store_vector"}

\* The tier a statement belongs to: 1 cache lookup (which calls no backend),
\* 2 exact match, 3 similarity, 4 synthesis.
Tier(site) ==
    CASE site = "lookup" -> 1
      [] site = "exact" -> 2
      [] site \in {"embed", "to_vector", "vsearch", "fetch"} -> 3
      [] OTHER -> 4

\* The names handle_problem looks up in Router.clients.
Backends == {"neo4j", "ollama", "faiss", "duckduckgo"}

\* The name a call site looks up in `async with self.clients[...]`.
Backend(site) ==
    CASE site \in {"exact", "fetch", "store_graph"} -> "neo4j"
      [] site \in {"embed", "synth"} -> "ollama"
      [] site = "websearch" -> "duckduckgo"
      [] OTHER -> "faiss"

\* What the servers answer when their handler failed: a dict without payload.
ErrorDict == [error |-> Val("e")]

GraphRows == {Val("rows")}

\* The dicts a backend tool may answer with at each call site.
Responses(site) ==
    CASE site \in {"exact", "fetch"} ->
            {ErrorDict} \cup {[result |-> v] : v \in {Empty} \cup GraphRows}
      [] site = "embed" -> {ErrorDict, [text |-> Val("t")]}
      [] site = "to_vector" -> {ErrorDict, [vector |-> Val("v")]}
      [] site = "vsearch" -> {ErrorDict, [results |-> Empty], [results |-> Val("n")]}
      [] site = "websearch" -> {ErrorDict, [results |-> Empty], [results |-> Val("w")]}
      [] site = "synth" -> {ErrorDict, [text |-> Empty], [text |-> Val("s")]}
      [] site = "store_graph" -> {ErrorDict, [result |-> Val("created")]}
      [] OTHER -> {ErrorDict, [status |-> Val("ok")]}

\* str(e) of the exceptions handle_problem can see.
BackendFailure == "backend failure"
AttributeError == "'NoneType' object has no attribute 'get'"
TypeError == "'NoneType' object is not subscriptable"
ValueError == "min() arg is an empty sequence"
KeyErrorText == "'text'"
KeyErrorVector == "'vector'"
KeyError(b) ==
    CASE b = "neo4j" -> "'neo4j'"
      [] b = "ollama" -> "'ollama'"
      [] b = "faiss" -> "'faiss'"
      [] OTHER -> "'duckduckgo'"

\* ------------------------------------------------------------------ handle_problem
NoCall == [desc |-> "", result |-> None, clean |-> FALSE, gap |-> 0]

\* NextSite with the web search placed ahead of the similarity tier.
NextSiteSearchFirst(site, truthy) ==
    CASE site = "start" -> "lookup"
      [] site = "lookup" -> "exact"
      [] site = "exact" -> "websearch"
      [] site = "websearch" -> "embed"
      [] site = "embed" -> "to_vector"
      [] site = "to_vector" -> "vsearch"
      [] site = "vsearch" -> IF truthy THEN "fetch" ELSE "synth"
      [] site = "fetch" -> "synth"
      [] site = "synth" -> "store_graph"
      [] OTHER -> "store_vector"

\* NextSite with the cache consulted only after the exact-match query.
NextSiteLookupLate(site, truthy) ==
    CASE site = "start" -> "exact"
      [] site = "exact" -> "lookup"
      [] site = "lookup" -> "embed"
      [] site = "embed" -> "to_vector"
      [] site = "to_vector" -> "vsearch"
      [] site = "vsearch" -> IF truthy THEN "fetch" ELSE "websearch"
      [] site = "fetch" -> "websearch"
      [] site = "websearch" -> "synth"
      [] site = "synth" -> "store_graph"
      [] OTHER -> "store_vector"

\* NextSite with the CREATE query of the persistence step left out.
NextSiteNoGraphWrite(site, truthy) ==
    CASE site = "start" -> "lookup"
      [] site = "lookup" -> "exact"
      [] site = "exact" -> "embed"
      [] site = "embed" -> "to_vector"
      [] site = "to_vector" -> "vsearch"
      [] site = "vsearch" -> IF truthy THEN "fetch" ELSE "websearch"
      [] site = "fetch" -> "websearch"
      [] site = "websearch" -> "synth"
      [] OTHER -> "store_vector"

\* Program order of handle_problem: the statement that follows `site` when
\* it did not return (`truthy`: the answer at `site` was a non-empty match).
NextSite(site, truthy) ==
    CASE site = "start" -> "lookup"
      [] site = "lookup" -> "exact"
      [] site = "exact" -> "embed"
      [] site = "embed" -> "to_vector"
      [] site = "to_vector" -> "vsearch"
      [] site = "vsearch" -> IF truthy THEN "fetch" ELSE "websearch"
      [] site = "fetch" -> "websearch"
      [] site = "websearch" -> "synth"
      [] site = "synth" -> "store_graph"
      [] OTHER -> "store_vector"

\* `return x` of handle_problem; the locals go out of scope.
Return(p, res) ==
    /\ pc' = [pc EXCEPT ![p] = "done"]
    /\ result' = [result EXCEPT ![p] = res]
    /\ endAt' = [endAt EXCEPT ![p] = now]
    /\ attempt' = [attempt EXCEPT ![p] = 0]
    /\ response' = [response EXCEPT ![p] = None]
    /\ solution' = [solution EXCEPT ![p] = None]

\* Caught with an except clause that lets the exception through to the caller.
CaughtEscapes(p, msg) ==
    /\ pc' = [pc EXCEPT ![p] = "raised"]
    /\ endAt' = [endAt EXCEPT ![p] = now]
    /\ attempt' = [attempt EXCEPT ![p] = 0]
    /\ response' = [response EXCEPT ![p] = None]
    /\ solution' = [solution EXCEPT ![p] = None]
    /\ UNCHANGED result

\* except Exception as e: return {"error": ...}
Caught(p, msg) == Return(p, [error |-> msg])

\* ReturnAndCache with the cache.set left out.
ReturnWithoutCaching(p, res) == Return(p, res) /\ UNCHANGED cacheVars

\* if self.cache: self.cache.set(problem_description, result); return result
ReturnAndCache(p, res) ==
    IF HasCache
    THEN IF CacheSetRaises
         THEN Caught(p, ValueError) /\ UNCHANGED cacheVars
         ELSE /\ cache' = CacheAfterSet(desc[p], res)[1]
              /\ timestamps' = CacheAfterSet(desc[p], res)[2]
              /\ order' = CacheAfterSet(desc[p], res)[3]
              /\ Return(p, res)
    ELSE Return(p, res) /\ UNCHANGED cacheVars

\* Control passes to the statement `site` of the same handle_problem call.
Enter(p, site) ==
    /\ pc' = [pc EXCEPT ![p] = site]
    /\ attempt' = [attempt EXCEPT ![p] = 0]

\* Control passes on after a backend call returned.
Goto(p, site) == Enter(p, site) /\ UNCHANGED <<result, endAt>>

\* What handle_problem does with the value r that _retry_operation returned
\* at a call site (None when the retry loop ran zero times).
Continue(p, site, r) ==
    CASE site = "exact" ->
            IF r = None
            THEN Caught(p, AttributeError) /\ UNCHANGED cacheVars
            ELSE IF Truthy(Get(r, "result", None))
            THEN ReturnAndCache(p, [source |-> "neo4j", data |-> r.result])
            ELSE /\ Goto(p, NextSite(site, FALSE))
                 /\ UNCHANGED <<cacheVars, response, solution>>
      [] site = "embed" ->
            /\ Goto(p, NextSite(site, FALSE))
            /\ response' = [response EXCEPT ![p] = r]
            /\ UNCHANGED <<cacheVars, solution>>
      [] site = "to_vector" ->
            IF r = None
            THEN Caught(p, TypeError) /\ UNCHANGED cacheVars
            ELSE IF "vector" \notin DOMAIN r
            THEN Caught(p, KeyErrorVector) /\ UNCHANGED cacheVars
            ELSE /\ Goto(p, NextSite(site, FALSE))
                 /\ UNCHANGED <<cacheVars, response, solution>>
      [] site = "vsearch" ->
            IF r = None
            THEN Caught(p, AttributeError) /\ UNCHANGED cacheVars
            ELSE /\ Goto(p, NextSite(site, Truthy(Get(r, "results", None))))
                 /\ UNCHANGED <<cacheVars, response, solution>>
      [] site = "fetch" ->
            IF r = None
            THEN Caught(p, AttributeError) /\ UNCHANGED cacheVars
            ELSE IF Truthy(Get(r, "result", None))
            THEN ReturnAndCache(p, [source |-> "similar_problems", data |-> r.result])
            ELSE /\ Goto(p, NextSite(site, FALSE))
                 /\ UNCHANGED <<cacheVars, response, solution>>
      [] site = "websearch" ->
            IF r = None
            THEN Caught(p, AttributeError) /\ UNCHANGED cacheVars
            ELSE /\ Goto(p, NextSite(site, FALSE))
                 /\ UNCHANGED <<cacheVars, response, solution>>
      [] site = "synth" ->
            IF r = None
            THEN Caught(p, AttributeError) /\ UNCHANGED cacheVars
            ELSE /\ Goto(p, NextSite(site, FALSE))
                 /\ solution' = [solution EXCEPT ![p] = Get(r, "text", Empty)]
                 /\ UNCHANGED <<cacheVars, response>>
      [] site = "store_graph" ->
            /\ Goto(p, NextSite(site, FALSE))
            /\ UNCHANGED <<cacheVars, response, solution>>
      [] OTHER ->
            ReturnAndCache(p, [source |-> "new_solution", solution |-> solution[p]])

\* Failed with the exception re-raised on the first failure.
FailedAtOnce(p, msg) == Caught(p, msg) /\ UNCHANGED cacheVars

\* except Exception in _retry_operation: re-raise on the last attempt, else
\* sleep and go round the loop again.
Failed(p, msg) ==
    IF attempt[p] = config.max_attempts - 1
    THEN Caught(p, msg) /\ UNCHANGED cacheVars
    ELSE /\ attempt' = [attempt EXCEPT ![p] = attempt[p] + 1]
         /\ UNCHANGED <<pc, result, endAt, response, solution, cacheVars>>

\* The lambda at the text_to_vector site evaluates response["text"] before
\* it calls the backend.
RaisesBeforeCall(p) ==
    pc[p] = "to_vector" /\ "text" \notin DOMAIN response[p]

\* The backend observes a call from the current statement; `raised`: the call
\* raises, else it answers r.
Issue(p, raised, r) ==
    /\ called' = [called EXCEPT ![p] = called[p] \cup {pc[p]}]
    /\ clean' = [clean EXCEPT ![p] = clean[p] /\ ~raised /\ r # ErrorDict]
    /\ tookError' = [tookError EXCEPT ![p] = tookError[p] \/ (~raised /\ r = ErrorDict)]
    /\ graphWrites' = IF pc[p] = "store_graph"
                      THEN [graphWrites EXCEPT ![p] = @ + 1]
                      ELSE graphWrites
    /\ vectorAdds' = IF pc[p] = "store_vector"
                     THEN [vectorAdds EXCEPT ![p] = @ + 1]
                     ELSE vectorAdds

frame == <<config, now, desc, prevCall, ncalls, asyncVars, registryVars, retryVars, serverVars>>

\* handle_problem is called.
Start(p, d) ==
    /\ life = "ready"
    /\ pc[p] \in {"idle", "done"}
    /\ ncalls < MaxCalls
    /\ ncalls' = ncalls + 1
    /\ desc' = [desc EXCEPT ![p] = d]
    /\ prevCall' = [prevCall EXCEPT ![p] =
                       IF pc[p] = "done" /\ desc[p] = d /\ "source" \in DOMAIN result[p]
                       THEN [desc |-> d, result |-> result[p], clean |-> clean[p],
                             gap |-> now - endAt[p]]
                       ELSE NoCall]
    /\ called' = [called EXCEPT ![p] = {}]
    /\ clean' = [clean EXCEPT ![p] = TRUE]
    /\ tookError' = [tookError EXCEPT ![p] = FALSE]
    /\ graphWrites' = [graphWrites EXCEPT ![p] = 0]
    /\ vectorAdds' = [vectorAdds EXCEPT ![p] = 0]
    /\ Enter(p, NextSite("start", FALSE))
    /\ result' = [result EXCEPT ![p] = None]
    /\ UNCHANGED <<config, now, cacheVars, response, solution, endAt, asyncVars, registryVars,
                   retryVars, serverVars>>

\* The lookup did not return: on to the first backend call.
Miss(p) ==
    /\ Enter(p, NextSite("lookup", FALSE))
    /\ endAt' = [endAt EXCEPT ![p] = 0]
    /\ UNCHANGED <<result, response, solution>>

\* if self.cache: cached_result = self.cache.get(...); if cached_result: return
Lookup(p) ==
    /\ pc[p] = "lookup"
    /\ prevCall' = [prevCall EXCEPT ![p] =
                       IF prevCall[p] = NoCall THEN NoCall
                       ELSE [prevCall[p] EXCEPT !.gap = now - endAt[p]]]
    /\ IF HasCache
       THEN /\ IF CacheGetExpires(desc[p])
               THEN /\ cache' = Without(cache, desc[p])
                    /\ timestamps' = Without(timestamps, desc[p])
                    /\ order' = SeqWithout(order, desc[p])
               ELSE UNCHANGED cacheVars
            /\ IF Truthy(CacheGetValue(desc[p]))
               THEN Return(p, [source |-> "cache", data |-> CacheGetValue(desc[p])])
               ELSE Miss(p)
       ELSE Miss(p) /\ UNCHANGED cacheVars
    /\ UNCHANGED <<config, now, desc, ncalls, histVars, asyncVars, registryVars, retryVars,
                   serverVars>>

\* Unregistered with the subscript evaluated inside the retried operation.
UnregisteredRetried(p) ==
    /\ pc[p] \in Sites
    /\ Backend(pc[p]) \notin clients
    /\ Failed(p, KeyError(Backend(pc[p])))
    /\ UNCHANGED <<frame, histVars>>

\* async with self.clients[name] for a name that has no Client: the subscript
\* raises KeyError before _retry_operation is called.
Unregistered(p) ==
    /\ pc[p] \in Sites
    /\ Backend(pc[p]) \notin clients
    /\ Caught(p, KeyError(Backend(pc[p])))
    /\ UNCHANGED <<cacheVars, frame, histVars>>

\* range(max_attempts) is empty: _retry_operation returns None, no call made.
NoAttempt(p) ==
    /\ pc[p] \in Sites
    /\ Backend(pc[p]) \in clients
    /\ config.max_attempts <= 0
    /\ Continue(p, pc[p], None)
    /\ UNCHANGED <<frame, histVars>>

\* One attempt whose operation raises before any backend is called.
AttemptRaisesLocally(p) ==
    /\ pc[p] \in Sites
    /\ Backend(pc[p]) \in clients
    /\ config.max_attempts > 0
    /\ RaisesBeforeCall(p)
    /\ Failed(p, IF response[p] = None THEN TypeError ELSE KeyErrorText)
    /\ UNCHANGED <<frame, histVars>>

\* One attempt: the backend call is issued and raises.
AttemptFails(p) ==
    /\ pc[p] \in Sites
    /\ Backend(pc[p]) \in clients
    /\ config.max_attempts > 0
    /\ ~RaisesBeforeCall(p)
    /\ Issue(p, TRUE, None)
    /\ Failed(p, BackendFailure)
    /\ UNCHANGED frame

\* One attempt: the backend call is issued and answers with a dict, which
\* _retry_operation returns.
AttemptReturns(p) ==
    /\ pc[p] \in Sites
    /\ Backend(pc[p]) \in clients
    /\ config.max_attempts > 0
    /\ ~RaisesBeforeCall(p)
    /\ \E r \in Responses(pc[p]) :
           /\ Issue(p, FALSE, r)
           /\ Continue(p, pc[p], r)
    /\ UNCHANGED frame

\* Time passes.
Tick ==
    /\ now < MaxTime
    /\ now' = now + 1
    /\ UNCHANGED <<config, cacheVars, callVars, asyncVars, registryVars, retryVars, serverVars>>

\* Cache.__init__ of either class, and no handle_problem call yet.
FreshWith(slots) ==
    /\ cache = NoEntries
    /\ timestamps = NoEntries
    /\ order = <<>>
    /\ locks = NoEntries
    /\ cleanupTask = 0
    /\ sweep = [s \in slots |-> NoSweep]
    /\ tpc = [t \in Tasks |-> "idle"]
    /\ targ = [t \in Tasks |-> NoArgs]
    /\ ret = None
    /\ now = 0
    /\ pc = [p \in Procs |-> "idle"]
    /\ desc = [p \in Procs |-> ""]
    /\ attempt = [p \in Procs |-> 0]
    /\ response = [p \in Procs |-> None]
    /\ solution = [p \in Procs |-> None]
    /\ result = [p \in Procs |-> None]
    /\ called = [p \in Procs |-> {}]
    /\ clean = [p \in Procs |-> TRUE]
    /\ tookError = [p \in Procs |-> FALSE]
    /\ graphWrites = [p \in Procs |-> 0]
    /\ vectorAdds = [p \in Procs |-> 0]
    /\ endAt = [p \in Procs |-> 0]
    /\ prevCall = [p \in Procs |-> NoCall]
    /\ ncalls = 0

\* The same, with room for MaxSweeps sweep tasks.
Fresh == FreshWith(Sweeps)

\* A router constructed from a configuration that enables every backend.
AllEnabled ==
    /\ servers = [b \in Backends |-> "enabled"]
    /\ clients = Backends
    /\ life = "ready"
    /\ attempted = {}

\* No call of _retry_operation is under study.
NoRetry ==
    /\ rpc = "idle"
    /\ tries = <<>>
    /\ waits = <<>>
    /\ outcome = None

\* No server process and no decorated function is under study.
NoServer ==
    /\ phase = "none"
    /\ invoked = FALSE
    /\ wret = None

\* Router.__init__: the router's cache is the sync class of router.py.
Init ==
    /\ config \in [cache : CacheConfigs, max_attempts : 0..MaxAttempts]
    /\ cacheClass = "sync"
    /\ Fresh
    /\ AllEnabled
    /\ NoRetry
    /\ NoServer

\* One caller at a time: each call of handle_problem runs to its return.
Next ==
    \/ \E p \in SeqProcs, d \in Descs : Start(p, d)
    \/ \E p \in SeqProcs : Lookup(p)
    \/ \E p \in SeqProcs : NoAttempt(p)
    \/ \E p \in SeqProcs : AttemptRaisesLocally(p)
    \/ \E p \in SeqProcs : AttemptFails(p)
    \/ \E p \in SeqProcs : AttemptReturns(p)
    \/ Tick

Spec == Init /\ [][Next]_vars

TypeOK ==
    /\ pc \in [Procs -> Sites \cup {"idle", "lookup", "done", "raised"}]
    /\ \A p \in Procs : attempt[p] \in 0..MaxAttempts
    /\ DOMAIN cache = DOMAIN timestamps

\* ------------------------------------------------------------------ Cache (utils/cache.py)
\* The lock of a key: the task that holds it, Free when it does not exist yet
\* or is not held.
Holder(key) == IF key \in DOMAIN locks THEN locks[key] ELSE Free

\* A cache call returns v (Raised: it raises) to the task that made it.
Returns(t, v) ==
    /\ tpc' = [tpc EXCEPT ![t] = "idle"]
    /\ targ' = [targ EXCEPT ![t] = NoArgs]
    /\ ret' = v

\* A cache call is suspended at an await that cannot go on now.
Blocks(t, at, args) ==
    /\ tpc' = [tpc EXCEPT ![t] = at]
    /\ targ' = [targ EXCEPT ![t] = args]
    /\ UNCHANGED ret

\* Remove with the timestamp left in place.
RemoveValueOnly(key) ==
    /\ locks' = With(locks, key, Free)
    /\ cache' = Without(cache, key)
    /\ order' = SeqWithout(order, key)
    /\ UNCHANGED timestamps

\* _remove with the key's lock free: the lock is created, taken, both dicts
\* are popped and the lock is released, without a suspension.
Remove(key) ==
    /\ locks' = With(locks, key, Free)
    /\ cache' = Without(cache, key)
    /\ timestamps' = Without(timestamps, key)
    /\ order' = SeqWithout(order, key)

\* SetLocked with the eviction left out.
SetLockedNoEviction(t, key, value) ==
    /\ locks' = With(locks, key, Free)
    /\ cache' = With(cache, key, value)
    /\ timestamps' = With(timestamps, key, now)
    /\ order' = SeqWith(order, key)
    /\ Returns(t, None)

\* The body of set, entered by task t with the lock of `key` acquired.
SetLocked(t, key, value) ==
    IF Cardinality(DOMAIN cache) >= config.cache.max_size
    THEN IF Len(order) = 0
         THEN \* min() raises ValueError; `async with` releases the lock
              /\ locks' = With(locks, key, Free)
              /\ Returns(t, Raised)
              /\ UNCHANGED cacheVars
         ELSE IF OldestKey = key \/ Holder(OldestKey) # Free
         THEN \* await self._remove(oldest_key) waits for a lock that is held
              /\ locks' = With(locks, key, t)
              /\ Blocks(t, "set_evict",
                        [NoArgs EXCEPT !.key = key, !.oldest = OldestKey])
              /\ UNCHANGED cacheVars
         ELSE /\ locks' = With(With(locks, OldestKey, Free), key, Free)
              /\ cache' = With(Without(cache, OldestKey), key, value)
              /\ timestamps' = With(Without(timestamps, OldestKey), key, now)
              /\ order' = SeqWith(SeqWithout(order, OldestKey), key)
              /\ Returns(t, None)
    ELSE /\ locks' = With(locks, key, Free)
         /\ cache' = With(cache, key, value)
         /\ timestamps' = With(timestamps, key, now)
         /\ order' = SeqWith(order, key)
         /\ Returns(t, None)

\* await cache.set(key, value)
CacheSet(t, key, value) ==
    /\ cacheClass = "async"
    /\ tpc[t] = "idle"
    /\ IF Holder(key) # Free
       THEN /\ Blocks(t, "set_lock", [NoArgs EXCEPT !.key = key])
            /\ UNCHANGED <<locks, cacheVars>>
       ELSE SetLocked(t, key, value)
    /\ UNCHANGED <<config, now, callVars, registryVars, retryVars, serverVars, cacheClass,
                   cleanupTask, sweep>>

\* CacheGet with the timestamp of a live entry renewed by the read.
CacheGetTouch(t, key) ==
    /\ cacheClass = "async"
    /\ tpc[t] = "idle"
    /\ key \in DOMAIN cache
    /\ now - timestamps[key] < config.cache.ttl
    /\ timestamps' = With(timestamps, key, now)
    /\ Returns(t, cache[key])
    /\ UNCHANGED <<config, now, callVars, registryVars, retryVars, serverVars, cacheClass,
                   locks, cache, order, cleanupTask, sweep>>

\* await cache.get(key)
CacheGet(t, key) ==
    /\ cacheClass = "async"
    /\ tpc[t] = "idle"
    /\ IF key \in DOMAIN cache
       THEN IF now - timestamps[key] < config.cache.ttl
            THEN Returns(t, cache[key]) /\ UNCHANGED <<locks, cacheVars>>
            ELSE IF Holder(key) # Free
                 THEN /\ Blocks(t, "get_remove", [NoArgs EXCEPT !.key = key])
                      /\ UNCHANGED <<locks, cacheVars>>
                 ELSE Remove(key) /\ Returns(t, None)
       ELSE Returns(t, None) /\ UNCHANGED <<locks, cacheVars>>
    /\ UNCHANGED <<config, now, callVars, registryVars, retryVars, serverVars, cacheClass,
                   cleanupTask, sweep>>

\* Clear with the timestamps left in place.
ClearValuesOnly(t) ==
    /\ cacheClass = "async"
    /\ tpc[t] = "idle"
    /\ cache' = NoEntries
    /\ Returns(t, None)
    /\ UNCHANGED <<config, now, callVars, registryVars, retryVars, serverVars, cacheClass, locks,
                   cleanupTask, sweep, timestamps, order>>

\* Clear with the lock map emptied as well.
ClearLocks(t) ==
    /\ cacheClass = "async"
    /\ tpc[t] = "idle"
    /\ cache' = NoEntries
    /\ timestamps' = NoEntries
    /\ order' = <<>>
    /\ locks' = NoEntries
    /\ Returns(t, None)
    /\ UNCHANGED <<config, now, callVars, registryVars, retryVars, serverVars, cacheClass,
                   cleanupTask, sweep>>

\* await cache.clear()
Clear(t) ==
    /\ cacheClass = "async"
    /\ tpc[t] = "idle"
    /\ cache' = NoEntries
    /\ timestamps' = NoEntries
    /\ order' = <<>>
    /\ Returns(t, None)
    /\ UNCHANGED <<config, now, callVars, registryVars, retryVars, serverVars, cacheClass,
                   locks, cleanupTask, sweep>>

\* The sweep tasks that exist.
Created == {s \in DOMAIN sweep : sweep[s].st # "none"}

\* Task t drops its reference to the finished sweep task s: the task object
\* is garbage once no other stop_cleanup awaits it.
Forget(t, s) ==
    IF \E u \in Tasks \ {t} : tpc[u] = "stop_await" /\ targ[u].task = s
    THEN sweep
    ELSE [sweep EXCEPT ![s] = NoSweep]

\* await cache.start_cleanup(): the new task is scheduled and has not run
\* yet; it is ready to run at once (wake time 0, the earliest time).
StartCleanup(t) ==
    /\ cacheClass = "async"
    /\ tpc[t] = "idle"
    /\ cleanupTask = 0 => Created # DOMAIN sweep
    /\ IF cleanupTask = 0
       THEN LET s == CHOOSE s \in DOMAIN sweep \ Created :
                           \A r \in DOMAIN sweep \ Created : s <= r
            IN  /\ sweep' = [sweep EXCEPT ![s] = [st |-> "sleeping", wake |-> 0, waits |-> ""]]
                /\ cleanupTask' = s
       ELSE UNCHANGED <<sweep, cleanupTask>>
    /\ Returns(t, None)
    /\ UNCHANGED <<config, now, callVars, registryVars, retryVars, serverVars, cacheClass,
                   locks, cacheVars>>

\* StopCleanup with the cancel and the await left out.
StopCleanupNoCancel(t) ==
    /\ cacheClass = "async"
    /\ tpc[t] = "idle"
    /\ cleanupTask' = 0
    /\ Returns(t, None)
    /\ UNCHANGED <<config, now, callVars, registryVars, retryVars, serverVars, cacheClass,
                   locks, cacheVars, sweep>>

\* await cache.stop_cleanup(), up to `await self._cleanup_task`: the task is
\* cancelled; awaiting a task that is done raises CancelledError at once.
StopCleanup(t) ==
    /\ cacheClass = "async"
    /\ tpc[t] = "idle"
    /\ IF cleanupTask = 0
       THEN Returns(t, None) /\ UNCHANGED <<sweep, cleanupTask>>
       ELSE IF sweep[cleanupTask].st = "done"
       THEN Returns(t, None) /\ cleanupTask' = 0 /\ sweep' = Forget(t, cleanupTask)
       ELSE /\ sweep' = [sweep EXCEPT ![cleanupTask] =
                            [st |-> "cancelled", wake |-> 0, waits |-> ""]]
            /\ Blocks(t, "stop_await", [NoArgs EXCEPT !.task = cleanupTask])
            /\ UNCHANGED cleanupTask
    /\ UNCHANGED <<config, now, callVars, registryVars, retryVars, serverVars, cacheClass,
                   locks, cacheVars>>

\* stop_cleanup after the awaited task has finished: self._cleanup_task = None
StopResume(t) ==
    /\ tpc[t] = "stop_await"
    /\ sweep[targ[t].task].st = "done"
    /\ cleanupTask' = 0
    /\ sweep' = Forget(t, targ[t].task)
    /\ Returns(t, None)
    /\ UNCHANGED <<config, now, callVars, registryVars, retryVars, serverVars, cacheClass,
                   locks, cacheVars>>

\* A cancelled sweep task is scheduled: CancelledError is thrown at its await
\* and ends _cleanup_loop.
SweepEnds(s) ==
    /\ sweep[s].st = "cancelled"
    /\ sweep' = [sweep EXCEPT ![s] = [st |-> "done", wake |-> 0, waits |-> ""]]
    /\ UNCHANGED <<config, now, callVars, registryVars, retryVars, serverVars, cacheClass, locks,
                   cacheVars, tpc, targ, ret,
                   cleanupTask>>

\* expired_keys of _cleanup_loop, in the order of the timestamps dict.
ExpiredKeys == SelectSeq(order, LAMBDA k : now - timestamps[k] > config.cache.ttl)

\* The keys of a list that a pass removes: those ahead of the first key whose
\* lock is held.
RECURSIVE Removable(_)
Removable(ks) ==
    IF ks = <<>> \/ Holder(Head(ks)) # Free THEN <<>>
    ELSE <<Head(ks)>> \o Removable(Tail(ks))

Range(ks) == {ks[i] : i \in 1..Len(ks)}

\* await asyncio.sleep(self.ttl) ends at now + ttl: with ttl = 0 the task is
\* ready again at once (wake time 0), and a time beyond the horizon of the
\* model is never reached.
WakeAt ==
    IF config.cache.ttl = 0 THEN 0
    ELSE IF now + config.cache.ttl > MaxTime THEN MaxTime + 1
    ELSE now + config.cache.ttl

\* One pass of _cleanup_loop, when its sleep is over: remove the expired keys
\* one by one, then sleep for ttl; or wait at the first lock that is held.
CleanupLoop(s) ==
    /\ sweep[s].st = "sleeping"
    /\ now >= sweep[s].wake
    /\ LET gone == Range(Removable(ExpiredKeys))
       IN  /\ cache' = [k \in DOMAIN cache \ gone |-> cache[k]]
           /\ timestamps' = [k \in DOMAIN timestamps \ gone |-> timestamps[k]]
           /\ order' = SelectSeq(order, LAMBDA k : k \notin gone)
           /\ locks' = [k \in DOMAIN locks \cup gone |-> Holder(k)]
           /\ sweep' = [sweep EXCEPT ![s] =
                 IF Len(Removable(ExpiredKeys)) = Len(ExpiredKeys)
                 THEN [st |-> "sleeping", wake |-> WakeAt, waits |-> ""]
                 ELSE [st |-> "waiting", wake |-> 0,
                       waits |-> ExpiredKeys[Len(Removable(ExpiredKeys)) + 1]]]
    /\ UNCHANGED <<config, now, callVars, registryVars, retryVars, serverVars, cacheClass, tpc,
                   targ,
                   ret, cleanupTask>>

\* ------------------------------------------------------------------ Cache (router.py), used directly
\* cache.get(key) of the sync class
RouterCacheGet(t, key) ==
    /\ cacheClass = "sync"
    /\ tpc[t] = "idle"
    /\ IF CacheGetExpires(key)
       THEN /\ cache' = Without(cache, key)
            /\ timestamps' = Without(timestamps, key)
            /\ order' = SeqWithout(order, key)
       ELSE UNCHANGED cacheVars
    /\ Returns(t, CacheGetValue(key))
    /\ UNCHANGED <<config, now, callVars, registryVars, retryVars, serverVars, cacheClass,
                   locks, cleanupTask, sweep>>

\* cache.set(key, value) of the sync class
RouterCacheSet(t, key, value) ==
    /\ cacheClass = "sync"
    /\ tpc[t] = "idle"
    /\ IF CacheSetRaises
       THEN Returns(t, Raised) /\ UNCHANGED cacheVars
       ELSE /\ cache' = CacheAfterSet(key, value)[1]
            /\ timestamps' = CacheAfterSet(key, value)[2]
            /\ order' = CacheAfterSet(key, value)[3]
            /\ Returns(t, None)
    /\ UNCHANGED <<config, now, callVars, registryVars, retryVars, serverVars, cacheClass,
                   locks, cleanupTask, sweep>>

\* A cache of either class, used by concurrent tasks through its own methods.
CacheInit ==
    /\ config \in [cache : [ttl : 0..MaxTtl, max_size : 0..MaxEntries], max_attempts : {1}]
    /\ cacheClass \in {"sync", "async"}
    /\ Fresh
    /\ AllEnabled
    /\ NoRetry
    /\ NoServer

CacheNext ==
    \/ \E t \in Tasks, k \in Keys, v \in Vals : CacheSet(t, k, v)
    \/ \E t \in Tasks, k \in Keys : CacheGet(t, k)
    \/ \E t \in Tasks : Clear(t)
    \/ \E t \in Tasks : StartCleanup(t)
    \/ \E t \in Tasks : StopCleanup(t)
    \/ \E t \in Tasks : StopResume(t)
    \/ \E s \in Sweeps : SweepEnds(s)
    \/ \E s \in Sweeps : CleanupLoop(s)
    \/ \E t \in Tasks, k \in Keys : RouterCacheGet(t, k)
    \/ \E t \in Tasks, k \in Keys, v \in Vals : RouterCacheSet(t, k, v)
    \/ Tick

CacheSpec == CacheInit /\ [][CacheNext]_vars

\* A task suspended at a lock waits for a lock that is held, and every held
\* lock is held by a set suspended in its eviction: no suspended task can go on.
NoWakeup ==
    /\ \A t \in Tasks :
          /\ tpc[t] = "set_lock" => Holder(targ[t].key) # Free
          /\ tpc[t] = "set_evict" => Holder(targ[t].oldest) # Free
          /\ tpc[t] = "get_remove" => Holder(targ[t].key) # Free
    /\ \A s \in Sweeps : sweep[s].st = "waiting" => Holder(sweep[s].waits) # Free
    /\ \A k \in DOMAIN locks :
          locks[k] # Free => (tpc[locks[k]] = "set_evict" /\ targ[locks[k]].key = k)

\* ------------------------------------------------------------------ start_cleanup and stop_cleanup called concurrently
\* The sweep tasks of an async cache whose start_cleanup and stop_cleanup are
\* awaited by several tasks: a task object lives until the last stop_cleanup
\* that awaits it has resumed, so one more than MaxSweeps can exist.
SweepSlots == 1..(MaxSweeps + 1)

SweepInit ==
    /\ config \in [cache : [ttl : 0..MaxTtl, max_size : {MaxEntries}], max_attempts : {1}]
    /\ cacheClass = "async"
    /\ FreshWith(SweepSlots)
    /\ AllEnabled
    /\ NoRetry
    /\ NoServer

SweepNext ==
    \/ \E t \in Tasks : StartCleanup(t)
    \/ \E t \in Tasks : StopCleanup(t)
    \/ \E t \in Tasks : StopResume(t)
    \/ \E s \in SweepSlots : SweepEnds(s)
    \/ \E s \in SweepSlots : CleanupLoop(s)
    \/ \E t \in Tasks, k \in Keys, v \in Vals : CacheSet(t, k, v)
    \/ Tick

SweepSpec == SweepInit /\ [][SweepNext]_vars

\* ------------------------------------------------------------------ BaseMCPServer.run (base_server.py)
\* run(): asyncio.run(self.initialize()) up to the first suspension of
\* initialize: start_cleanup creates the sweep task on the loop of this
\* asyncio.run.
RunInitialize ==
    /\ phase = "new"
    /\ phase' = "initialize"
    /\ IF cleanupTask = 0
       THEN /\ sweep' = [sweep EXCEPT ![1] = [st |-> "sleeping", wake |-> 0, waits |-> ""]]
            /\ cleanupTask' = 1
       ELSE UNCHANGED <<sweep, cleanupTask>>
    /\ UNCHANGED <<config, now, cacheVars, callVars, registryVars, retryVars,
                   cacheClass, locks, tpc, targ, ret, invoked, wret>>

\* initialize returns (ok) or raises out of register_tools: asyncio.run
\* cancels every task that is left on its loop before it closes the loop.
InitializeEnds(ok) ==
    /\ phase = "initialize"
    /\ phase' = IF ok THEN "closing" ELSE "closing_failed"
    /\ sweep' = [s \in DOMAIN sweep |->
                    IF sweep[s].st \in {"sleeping", "waiting"}
                    THEN [st |-> "cancelled", wake |-> 0, waits |-> ""]
                    ELSE sweep[s]]
    /\ UNCHANGED <<config, now, cacheVars, callVars, registryVars, retryVars,
                   cacheClass, locks, tpc, targ, ret, cleanupTask, invoked, wret>>

\* asyncio.run returns once the cancelled tasks have ended: run() goes on to
\* self.mcp.run(), or to the finally clause when initialize raised.
LoopCloses ==
    /\ phase \in {"closing", "closing_failed"}
    /\ \A s \in DOMAIN sweep : sweep[s].st \in {"none", "done"}
    /\ phase' = IF phase = "closing" THEN "serving" ELSE "cleanup"
    /\ UNCHANGED <<config, now, cacheVars, callVars, registryVars, retryVars,
                   asyncVars, invoked, wret>>

\* self.mcp.run() returns or raises: its loop is closed, the handlers that are
\* suspended are cancelled and leave their `async with lock` blocks.
McpRunEnds ==
    /\ phase = "serving"
    /\ phase' = "cleanup"
    /\ tpc' = [t \in Tasks |-> "idle"]
    /\ targ' = [t \in Tasks |-> NoArgs]
    /\ locks' = [k \in DOMAIN locks |-> Free]
    /\ UNCHANGED <<config, now, cacheVars, callVars, registryVars, retryVars,
                   cacheClass, ret, cleanupTask, sweep, invoked, wret>>

\* _cleanup(): asyncio.run(self.cache.stop_cleanup()) on a new loop; cancel()
\* of a task that is done does nothing and awaiting it raises CancelledError
\* at once, which stop_cleanup swallows.
Cleanup ==
    /\ phase = "cleanup"
    /\ phase' = "stopped"
    /\ IF cleanupTask = 0
       THEN UNCHANGED <<sweep, cleanupTask>>
       ELSE /\ sweep' = [sweep EXCEPT ![cleanupTask] = NoSweep]
            /\ cleanupTask' = 0
    /\ UNCHANGED <<config, now, cacheVars, callVars, registryVars, retryVars,
                   cacheClass, locks, tpc, targ, ret, invoked, wret>>

\* BaseMCPServer.__init__ with the cache enabled.
ServerInit ==
    /\ config \in [cache : [ttl : 0..MaxTtl, max_size : 1..MaxEntries], max_attempts : {1}]
    /\ cacheClass = "async"
    /\ Fresh
    /\ AllEnabled
    /\ NoRetry
    /\ phase = "new"
    /\ invoked = FALSE
    /\ wret = None

\* The tool handlers use the cache while self.mcp.run() serves.
ServerNext ==
    \/ RunInitialize
    \/ \E ok \in BOOLEAN : InitializeEnds(ok)
    \/ \E s \in Sweeps : CleanupLoop(s)
    \/ \E s \in Sweeps : SweepEnds(s)
    \/ LoopCloses
    \/ phase = "serving" /\ \E t \in Tasks, k \in Keys, v \in Vals : CacheSet(t, k, v)
    \/ phase = "serving" /\ \E t \in Tasks, k \in Keys : CacheGet(t, k)
    \/ phase = "serving" /\ \E t \in Tasks : Clear(t)
    \/ McpRunEnds
    \/ Cleanup
    \/ Tick

ServerSpec == ServerInit /\ [][ServerNext]_vars

\* ------------------------------------------------------------------ cache_decorator (utils/cache.py)
\* What a decorated function may return.
Results == Vals \cup {None}

\* wrapper(*args) by task t, `key` being the cache key computed from the
\* arguments, up to `await func(...)`: cache.get, then the test
\* `cached_value is not None`.
WrapperCall(t, key) ==
    /\ cacheClass = "async"
    /\ tpc[t] = "idle"
    /\ IF /\ key \in DOMAIN cache
          /\ now - timestamps[key] < config.cache.ttl
          /\ cache[key] # None
       THEN /\ Returns(t, cache[key])
            /\ invoked' = FALSE
            /\ wret' = cache[key]
            /\ UNCHANGED <<locks, cacheVars>>
       ELSE IF /\ key \in DOMAIN cache
               /\ now - timestamps[key] >= config.cache.ttl
               /\ Holder(key) # Free
       THEN /\ Blocks(t, "get_remove", [NoArgs EXCEPT !.key = key])
            /\ UNCHANGED <<locks, cacheVars, invoked, wret>>
       ELSE /\ IF key \in DOMAIN cache /\ now - timestamps[key] >= config.cache.ttl
               THEN Remove(key)
               ELSE UNCHANGED <<locks, cacheVars>>
            /\ tpc' = [tpc EXCEPT ![t] = "func"]
            /\ targ' = [targ EXCEPT ![t] = [NoArgs EXCEPT !.key = key]]
            /\ ret' = None
            /\ invoked' = TRUE
            /\ UNCHANGED wret
    /\ UNCHANGED <<config, now, callVars, registryVars, retryVars, cacheClass, cleanupTask,
                   sweep, phase>>

\* func returns v to the wrapper of task t: await cache.set(cache_key, result),
\* then return result.
FuncReturns(t, v) ==
    /\ tpc[t] = "func"
    /\ IF Holder(targ[t].key) # Free
       THEN /\ Blocks(t, "set_lock", [NoArgs EXCEPT !.key = targ[t].key])
            /\ UNCHANGED <<locks, cacheVars>>
       ELSE SetLocked(t, targ[t].key, v)
    /\ wret' = IF tpc'[t] = "idle" THEN (IF ret' = Raised THEN Raised ELSE v) ELSE wret
    /\ UNCHANGED <<config, now, callVars, registryVars, retryVars, cacheClass, cleanupTask,
                   sweep, phase, invoked>>

\* func raises: the exception leaves the wrapper, nothing is stored.
FuncRaises(t) ==
    /\ tpc[t] = "func"
    /\ Returns(t, None)
    /\ wret' = Raised
    /\ UNCHANGED <<config, now, cacheVars, callVars, registryVars, retryVars, cacheClass,
                   locks, cleanupTask, sweep, phase, invoked>>

DecoInit ==
    /\ config \in [cache : [ttl : 1..MaxTtl, max_size : 1..MaxEntries], max_attempts : {1}]
    /\ cacheClass = "async"
    /\ Fresh
    /\ AllEnabled
    /\ NoRetry
    /\ NoServer

DecoNext ==
    \/ \E t \in Tasks, k \in Keys : WrapperCall(t, k)
    \/ \E t \in Tasks, v \in Results : FuncReturns(t, v)
    \/ \E t \in Tasks : FuncRaises(t)
    \/ Tick

DecoSpec == DecoInit /\ [][DecoNext]_vars

\* ------------------------------------------------------------------ Router: registry of clients
\* The servers of the configuration that have "enabled": true.
Enabled == {b \in Backends : servers[b] = "enabled"}

\* RouterInit with a failing Client(...) skipped instead of propagated.
RouterInitPartial ==
    /\ life = "new"
    /\ \E bad \in SUBSET Enabled :
          /\ clients' = Enabled \ bad
          /\ life' = "ready"
    /\ UNCHANGED <<config, now, cacheVars, callVars, asyncVars, retryVars, serverVars, servers,
                   attempted>>

\* Router.__init__: _initialize_clients makes a Client for every enabled
\* server; a Client(...) that raises (the servers in `bad`) ends the
\* constructor with that exception, and no Router object exists.
RouterInit ==
    /\ life = "new"
    /\ \E bad \in SUBSET Enabled :
          IF bad = {}
          THEN clients' = Enabled /\ life' = "ready"
          ELSE clients' = {} /\ life' = "failed"
    /\ UNCHANGED <<config, now, cacheVars, callVars, asyncVars, retryVars, serverVars, servers,
                   attempted>>

\* RouterMCPServer.initialize: Router has no method `initialize`, the await
\* raises AttributeError, which is logged and raised again; the process ends
\* before server.run().
ServerInitialize ==
    /\ life = "ready"
    /\ ncalls = 0
    /\ life' = "aborted"
    /\ UNCHANGED <<config, now, cacheVars, callVars, asyncVars, retryVars, serverVars, servers,
                   clients, attempted>>

\* Router.close is called, after the calls in flight have returned: it is at
\* the first `await client.close()`, or has returned when there is no client.
Close ==
    /\ life = "ready"
    /\ \A p \in Procs : pc[p] \in {"idle", "done"}
    /\ life' = IF clients = {} THEN "closed" ELSE "closing"
    /\ UNCHANGED <<config, now, cacheVars, callVars, asyncVars, retryVars, serverVars, servers,
                   clients, attempted>>

\* `await client.close()` of the next client of the dict (its order is that
\* of the configuration file) returns, or raises: nothing catches the
\* exception in Router.close, and RouterMCPServer.cleanup raises it again.
ClientCloses(c, ok) ==
    /\ life = "closing"
    /\ c \in clients \ attempted
    /\ attempted' = attempted \cup {c}
    /\ life' = IF ~ok THEN "close_raised"
               ELSE IF attempted' = clients THEN "closed"
               ELSE "closing"
    /\ UNCHANGED <<config, now, cacheVars, callVars, asyncVars, retryVars, serverVars, servers,
                   clients>>

\* Any configuration of the servers, and no Router constructed yet. The
\* cache is disabled, so that nothing the router does depends on the clock.
RegistryInit ==
    /\ config \in [cache : {None}, max_attempts : 0..MaxAttempts]
    /\ cacheClass = "sync"
    /\ Fresh
    /\ NoRetry
    /\ NoServer
    /\ servers \in [Backends -> {"enabled", "disabled", "absent"}]
    /\ clients = {}
    /\ life = "new"
    /\ attempted = {}

RegistryNext ==
    \/ RouterInit
    \/ ServerInitialize
    \/ \E p \in SeqProcs, d \in Descs : Start(p, d)
    \/ \E p \in SeqProcs : Lookup(p)
    \/ \E p \in SeqProcs : Unregistered(p)
    \/ \E p \in SeqProcs : NoAttempt(p)
    \/ \E p \in SeqProcs : AttemptRaisesLocally(p)
    \/ \E p \in SeqProcs : AttemptFails(p)
    \/ \E p \in SeqProcs : AttemptReturns(p)
    \/ Close
    \/ \E c \in Backends, ok \in BOOLEAN : ClientCloses(c, ok)

RegistrySpec == RegistryInit /\ [][RegistryNext]_vars

\* ------------------------------------------------------------------ handle_problem, concurrent callers
\* handle_problem is a coroutine: calls made by different tasks interleave at
\* their awaits, each of which is one backend round trip. A router with
\* every backend registered and one attempt per backend call.
ConcInit ==
    /\ config \in [cache : {None, [ttl |-> MaxTtl, max_size |-> MaxSize]},
                   max_attempts : {1}]
    /\ cacheClass = "sync"
    /\ Fresh
    /\ AllEnabled
    /\ NoRetry
    /\ NoServer

ConcNext ==
    \/ \E p \in Procs, d \in Descs : Start(p, d)
    \/ \E p \in Procs : Lookup(p)
    \/ \E p \in Procs : AttemptRaisesLocally(p)
    \/ \E p \in Procs : AttemptFails(p)
    \/ \E p \in Procs : AttemptReturns(p)
    \/ Tick

ConcSpec == ConcInit /\ [][ConcNext]_vars

\* ------------------------------------------------------------------ a cache that is read
\* The router's cache, read by handle_problem and by direct calls of get
\* while every backend call is answered, and a cache of the async class under
\* set and get.
HitInit ==
    /\ config \in [cache : [ttl : 1..MaxTtl, max_size : 1..MaxSize], max_attempts : {1}]
    /\ cacheClass \in {"sync", "async"}
    /\ Fresh
    /\ AllEnabled
    /\ NoRetry
    /\ NoServer

HitNext ==
    \/ cacheClass = "sync" /\ \E p \in SeqProcs, d \in Descs : Start(p, d)
    \/ \E p \in SeqProcs : Lookup(p)
    \/ \E p \in SeqProcs : AttemptRaisesLocally(p)
    \/ \E p \in SeqProcs : AttemptReturns(p)
    \/ \E t \in Tasks, d \in Descs : RouterCacheGet(t, d)
    \/ \E t \in Tasks, k \in Keys, v \in Vals : CacheSet(t, k, v)
    \/ \E t \in Tasks, k \in Keys : CacheGet(t, k)
    \/ Tick

HitSpec == HitInit /\ [][HitNext]_vars

\* ------------------------------------------------------------------ _retry_operation
\* One call of _retry_operation(operation) with the defaults of the
\* configuration, the operation being any coroutine function. The loop
\* variable `attempt` is Len(tries) while the operation is awaited.

\* The exceptions an operation raises that `except Exception` catches.
ExceptionKinds == {"ConnectionError", "ValueError"}

\* What the i-th call of operation() returns, and the exception object of
\* class k it raises.
Returned(i) == [kind |-> "value", at |-> i]
RaisedAt(k, i) == [kind |-> k, at |-> i]

IsFailure(o) == o.kind # "value"

\* _retry_operation is called: with an empty range it returns None at once,
\* else it awaits the first call of the operation.
RetryOperation ==
    /\ rpc \in {"idle", "returned", "raised"}
    /\ tries' = <<>>
    /\ waits' = <<>>
    /\ outcome' = None
    /\ rpc' = IF config.max_attempts <= 0 THEN "returned" ELSE "operation"
    /\ UNCHANGED <<config, now, cacheVars, callVars, asyncVars, registryVars, serverVars>>

\* OperationReturns with the value dropped and the loop going on.
OperationReturnsIgnored ==
    /\ rpc = "operation"
    /\ tries' = Append(tries, Returned(Len(tries) + 1))
    /\ IF Len(tries) = config.max_attempts - 1
       THEN rpc' = "returned" /\ outcome' = Returned(Len(tries) + 1)
       ELSE rpc' = "operation" /\ UNCHANGED outcome
    /\ UNCHANGED <<config, now, cacheVars, callVars, asyncVars, registryVars, serverVars, waits>>

\* return await operation()
OperationReturns ==
    /\ rpc = "operation"
    /\ tries' = Append(tries, Returned(Len(tries) + 1))
    /\ rpc' = "returned"
    /\ outcome' = Returned(Len(tries) + 1)
    /\ UNCHANGED <<config, now, cacheVars, callVars, asyncVars, registryVars, serverVars, waits>>

\* OperationRaises with the last exception wrapped in a new one.
OperationRaisesWrapped(k) ==
    /\ rpc = "operation"
    /\ tries' = Append(tries, RaisedAt(k, Len(tries) + 1))
    /\ IF Len(tries) = config.max_attempts - 1
       THEN /\ rpc' = "raised"
            /\ outcome' = RaisedAt("Exception", Len(tries) + 1)
            /\ UNCHANGED waits
       ELSE /\ rpc' = "sleep"
            /\ waits' = Append(waits, config.delay)
            /\ UNCHANGED outcome
    /\ UNCHANGED <<config, now, cacheVars, callVars, asyncVars, registryVars, serverVars>>

\* except Exception: `raise` on the last attempt, else asyncio.sleep(delay)
OperationRaises(k) ==
    /\ rpc = "operation"
    /\ tries' = Append(tries, RaisedAt(k, Len(tries) + 1))
    /\ IF Len(tries) = config.max_attempts - 1
       THEN /\ rpc' = "raised"
            /\ outcome' = RaisedAt(k, Len(tries) + 1)
            /\ UNCHANGED waits
       ELSE /\ rpc' = "sleep"
            /\ waits' = Append(waits, config.delay)
            /\ UNCHANGED outcome
    /\ UNCHANGED <<config, now, cacheVars, callVars, asyncVars, registryVars, serverVars>>

\* The sleep is over: the loop goes round and awaits the operation again.
SleepEnds ==
    /\ rpc = "sleep"
    /\ rpc' = "operation"
    /\ UNCHANGED <<config, now, cacheVars, callVars, asyncVars, registryVars, serverVars,
                   tries, waits,
                   outcome>>

\* config["router"]["retry"], any values of max_attempts and delay.
RetryInit ==
    /\ config \in [cache : {None}, max_attempts : 0..MaxTries, delay : 0..MaxDelay]
    /\ cacheClass = "sync"
    /\ Fresh
    /\ AllEnabled
    /\ NoRetry
    /\ NoServer

RetryNext ==
    \/ RetryOperation
    \/ OperationReturns
    \/ \E k \in ExceptionKinds : OperationRaises(k)
    \/ SleepEnds

RetrySpec == RetryInit /\ [][RetryNext]_vars

\* ------------------------------------------------------------------ GraphAgent._execute_with_retry (graph_agent.py)
\* neo4j.exceptions.ServiceUnavailable and subclasses of it, which
\* `except ServiceUnavailable` catches, and exceptions it does not catch.
ServiceUnavailableKinds ==
    {"ServiceUnavailable", "RoutingServiceUnavailable", "WriteServiceUnavailable"}
GraphExceptionKinds == ServiceUnavailableKinds \cup {"SessionExpired", "ClientError"}

\* query() calls _execute_with_retry(run_query): retries = 0; with
\* max_retries <= 0 the loop body never runs and the method returns None.
ExecuteWithRetry ==
    /\ rpc \in {"idle", "returned", "raised"}
    /\ tries' = <<>>
    /\ waits' = <<>>
    /\ outcome' = None
    /\ rpc' = IF 0 < config.max_retries THEN "operation" ELSE "returned"
    /\ UNCHANGED <<config, now, cacheVars, callVars, asyncVars, registryVars, serverVars>>

\* return operation()
RunQueryReturns ==
    /\ rpc = "operation"
    /\ tries' = Append(tries, Returned(Len(tries) + 1))
    /\ outcome' = Returned(Len(tries) + 1)
    /\ rpc' = "returned"
    /\ UNCHANGED <<config, now, cacheVars, callVars, asyncVars, registryVars, serverVars, waits>>

\* RunQueryRaises with `except Exception` in the place of
\* `except ServiceUnavailable`.
RunQueryRaisesRetryAll(k) ==
    /\ rpc = "operation"
    /\ tries' = Append(tries, RaisedAt(k, Len(tries) + 1))
    /\ IF Len(tries) + 1 = config.max_retries
       THEN /\ rpc' = "raised"
            /\ outcome' = RaisedAt(k, Len(tries) + 1)
            /\ UNCHANGED waits
       ELSE /\ rpc' = "sleep"
            /\ waits' = Append(waits, 1)
            /\ UNCHANGED outcome
    /\ UNCHANGED <<config, now, cacheVars, callVars, asyncVars, registryVars, serverVars>>

\* operation() raises an exception of class k. Every earlier call raised a
\* ServiceUnavailable, so `retries` is the number of calls made so far.
RunQueryRaises(k) ==
    /\ rpc = "operation"
    /\ tries' = Append(tries, RaisedAt(k, Len(tries) + 1))
    /\ IF k \in ServiceUnavailableKinds /\ Len(tries) + 1 # config.max_retries
       THEN /\ rpc' = "sleep"
            /\ waits' = Append(waits, 1)
            /\ UNCHANGED outcome
       ELSE /\ rpc' = "raised"
            /\ outcome' = RaisedAt(k, Len(tries) + 1)
            /\ UNCHANGED waits
    /\ UNCHANGED <<config, now, cacheVars, callVars, asyncVars, registryVars, serverVars>>

\* time.sleep(1) returns: the loop tests retries < max_retries, which holds,
\* and calls the operation again.
TimeSleepEnds ==
    /\ rpc = "sleep"
    /\ rpc' = "operation"
    /\ UNCHANGED <<config, now, cacheVars, callVars, asyncVars, registryVars, serverVars, tries,
                   waits, outcome>>

\* GraphAgent(config_path, max_retries)
GraphInit ==
    /\ config \in [cache : {None}, max_attempts : {1}, max_retries : 0..MaxTries]
    /\ cacheClass = "sync"
    /\ Fresh
    /\ AllEnabled
    /\ NoRetry
    /\ NoServer

GraphNext ==
    \/ ExecuteWithRetry
    \/ RunQueryReturns
    \/ \E k \in GraphExceptionKinds : RunQueryRaises(k)
    \/ TimeSleepEnds

GraphSpec == GraphInit /\ [][GraphNext]_vars

\* ------------------------------------------------------------------ claims
Done(p) == pc[p] = "done"
Source(r) == IF "source" \in DOMAIN r THEN r.source ELSE ""
IsError(r) == "error" \in DOMAIN r

\* The tier named by a result's source tag.
SourceTier(src) ==
    CASE src = "cache" -> 1
      [] src = "neo4j" -> 2
      [] src = "similar_problems" -> 3
      [] OTHER -> 4

Cached(p) == desc[p] \in DOMAIN cache /\ cache[desc[p]] = result[p]

\* C1: within one handle_problem call the tiers run in the order cache lookup,
\* exact match, similarity, synthesis: the cache is consulted before any
\* backend call, a backend call is issued only when every call issued before
\* it belongs to the same or an earlier tier and every earlier tier has been
\* tried, and a call that returned a tier's solution has issued no call of a
\* later tier.
C1_TierOrder ==
    \A p \in Procs :
        /\ pc[p] = "lookup" => called[p] = {}
        /\ pc[p] \in Sites =>
              /\ \A s \in called[p] : Tier(s) <= Tier(pc[p])
              /\ \A t \in 2..(Tier(pc[p]) - 1) : \E s \in called[p] : Tier(s) = t
        /\ (Done(p) /\ ~IsError(result[p])) =>
              \A s \in called[p] : Tier(s) <= SourceTier(Source(result[p]))

C1_Witness ==
    \E p \in Procs :
        /\ Done(p)
        /\ Source(result[p]) = "similar_problems"
        /\ called[p] = {"exact", "embed", "to_vector", "vsearch", "fetch"}
        /\ ~clean[p]

\* C2: handle_problem never raises, and what it returns carries either a
\* source tag or an error message, never both and never neither.
C2_TaggedOrError ==
    \A p \in Procs :
        /\ pc[p] # "raised"
        /\ Done(p) =>
              /\ ("source" \in DOMAIN result[p]) \/ IsError(result[p])
              /\ ~(("source" \in DOMAIN result[p]) /\ IsError(result[p]))

C2_Witness ==
    \E p \in Procs : Done(p) /\ result[p] = [error |-> BackendFailure]

\* C3 (as claimed, for a router whose cache has ttl >= 1 and max_size >= 1):
\* a call answered by a non-empty exact match returns source neo4j and is
\* cached, and the same description asked again at once returns source cache
\* with the payload the first call returned.
C3_RepeatSamePayload ==
    \A p \in Procs :
        (HasCache /\ config.cache.ttl >= 1 /\ config.cache.max_size >= 1) =>
            /\ (Done(p) /\ clean[p] /\ called[p] = {"exact"}) =>
                  (Source(result[p]) = "neo4j" /\ Cached(p))
            /\ (Done(p) /\ Source(prevCall[p].result) = "neo4j" /\ prevCall[p].gap = 0) =>
                  /\ Source(result[p]) = "cache"
                  /\ result[p].data = prevCall[p].result.data

C5_ErrorOnlyFromSynthesis ==
    \A p \in Procs :
        (Done(p) /\ result[p] = [error |-> BackendFailure]) =>
            \E s \in called[p] : Tier(s) = 4

\* C6 (as claimed): a call whose embedding step failed (it called the
\* embedding backend and never reached the vector search) has gone on to the
\* web search of the synthesis tier before it returns.
C6_EmbeddingFailureSkips ==
    \A p \in Procs :
        (Done(p) /\ "embed" \in called[p] /\ "vsearch" \notin called[p]) =>
            "websearch" \in called[p]

\* C7 (as claimed): an answer that is an error dict is a failed attempt:
\* _retry_operation never hands it to handle_problem as the call's value.
C7_ErrorAnswerIsFailure ==
    \A p \in Procs : ~tookError[p]

\* C8 (as claimed): a call that got its solution from the exact-match or
\* similarity tier returns it even when the cache insert raises: it never
\* returns the error of the cache insert.
C8_CacheWriteOffCriticalPath ==
    \A p \in Procs :
        ~(/\ Done(p)
          /\ result[p] = [error |-> ValueError]
          /\ \A s \in called[p] : Tier(s) <= 3)

\* C9 (as claimed): every solution returned from a tier other than the cache
\* has been written to the graph store and added to the vector store, and is
\* in the cache (of a router that has one) under the description.
C9_AsClaimed ==
    \A p \in Procs :
        (Done(p) /\ Source(result[p]) \in {"neo4j", "similar_problems", "new_solution"}) =>
            /\ graphWrites[p] >= 1
            /\ vectorAdds[p] >= 1
            /\ HasCache => Cached(p)

\* C9 (amended): every new_solution result returned has been preceded by a
\* graph write and a vector add of the same call; every neo4j, similar_problems
\* or new_solution result returned by a router that has a cache is in the
\* cache under the description when the call returns; a neo4j or
\* similar_problems result is returned without any graph write or vector add.
C9_Persisted ==
    \A p \in Procs :
        (Done(p) /\ Source(result[p]) \in {"neo4j", "similar_problems", "new_solution"}) =>
            /\ HasCache => Cached(p)
            /\ Source(result[p]) = "new_solution" =>
                  /\ {"store_graph", "store_vector"} \subseteq called[p]
                  /\ graphWrites[p] >= 1 /\ vectorAdds[p] >= 1
            /\ Source(result[p]) # "new_solution" =>
                  graphWrites[p] = 0 /\ vectorAdds[p] = 0

C9_Witness ==
    \E p \in Procs :
        /\ Done(p)
        /\ Source(result[p]) = "new_solution"
        /\ HasCache /\ Cached(p)
        /\ graphWrites[p] = 2

\* C10: a call answered from the cache has issued no backend call: no graph,
\* vector, search or LLM call, hence no write.
C10_CacheHitCallsNothing ==
    \A p \in Procs :
        (Done(p) /\ Source(result[p]) = "cache") =>
            called[p] = {} /\ graphWrites[p] = 0 /\ vectorAdds[p] = 0

C10_Witness ==
    \E p \in Procs :
        /\ Done(p)
        /\ Source(result[p]) = "cache"
        /\ Source(result[p].data) = "similar_problems"

\* C11 (as claimed): a call whose backend calls all succeeded and which ended
\* in the similarity tier after the graph fetch (the neighbour list and the
\* fetched solutions were non-empty) returns source similar_problems, has it
\* in the cache of a router that has one, and has run no web search and no
\* synthesis; a call whose neighbour list or fetched solutions were empty is
\* in the synthesis tier next.
C11_SimilarMatch ==
    \A p \in Procs :
        /\ (Done(p) /\ clean[p] /\ "fetch" \in called[p] /\ "websearch" \notin called[p]) =>
              /\ Source(result[p]) = "similar_problems"
              /\ HasCache => Cached(p)
        /\ (Done(p) /\ Source(result[p]) = "similar_problems") =>
              called[p] \cap {"websearch", "synth"} = {}
        /\ (/\ clean[p] /\ "vsearch" \in called[p]
            /\ pc[p] \in Sites \ {"vsearch", "fetch"}) =>
              Tier(pc[p]) = 4

\* C12 (as claimed): every result of handle_problem that is not an error is a
\* dict of exactly the two keys source and data.
C12_SourceAndData ==
    \A p \in Procs :
        (Done(p) /\ ~IsError(result[p])) => DOMAIN result[p] = {"source", "data"}

C14_SizeBounded ==
    Cardinality(DOMAIN cache) <= config.cache.max_size

C14_Witness ==
    /\ cacheClass = "async"
    /\ config.cache.max_size = MaxEntries
    /\ Cardinality(DOMAIN cache) = MaxEntries
    /\ DOMAIN locks = Keys
    /\ \E s \in Sweeps : sweep[s].st = "sleeping" /\ sweep[s].wake > 0

\* C15 (as claimed, for max_size >= 1): a set of a key that is not in a cache
\* holding exactly max_size entries removes one entry, one whose timestamp is
\* the smallest, and stores the new entry with the current time; no other
\* entry changes.
C15_EvictsOldest ==
    [][\A t \in Tasks, k \in Keys, v \in Vals :
          (/\ CacheSet(t, k, v) \/ RouterCacheSet(t, k, v)
           /\ config.cache.max_size >= 1
           /\ k \notin DOMAIN cache
           /\ Cardinality(DOMAIN cache) = config.cache.max_size) =>
              \E o \in DOMAIN cache :
                  /\ \A j \in DOMAIN cache : timestamps[o] <= timestamps[j]
                  /\ DOMAIN cache' = (DOMAIN cache \ {o}) \cup {k}
                  /\ cache'[k] = v /\ timestamps'[k] = now
                  /\ \A j \in DOMAIN cache \ {o} :
                        cache'[j] = cache[j] /\ timestamps'[j] = timestamps[j]
      ]_vars

\* C16 (as claimed): after a set(k, v) that returned, with ttl >= 1, a get(k)
\* at once would return v; a get(k) of an entry younger than ttl returns the
\* stored value; a get(k) of an entry older than ttl returns None and the
\* entry is gone.
C16_TtlSemantics ==
    [][\A t \in Tasks, k \in Keys :
          /\ \A v \in Vals :
                (/\ CacheSet(t, k, v) \/ RouterCacheSet(t, k, v)
                 /\ config.cache.ttl >= 1
                 /\ tpc'[t] = "idle" /\ ret' # Raised) =>
                    /\ k \in DOMAIN cache' /\ cache'[k] = v
                    /\ now - timestamps'[k] < config.cache.ttl
          /\ (/\ CacheGet(t, k) \/ RouterCacheGet(t, k)
              /\ k \in DOMAIN cache
              /\ now - timestamps[k] < config.cache.ttl) =>
                 /\ tpc'[t] = "idle" /\ ret' = cache[k]
                 /\ UNCHANGED cacheVars
          /\ (/\ CacheGet(t, k) \/ RouterCacheGet(t, k)
              /\ k \in DOMAIN cache
              /\ now - timestamps[k] > config.cache.ttl) =>
                 /\ tpc'[t] = "idle" /\ ret' = None
                 /\ k \notin DOMAIN cache' /\ k \notin DOMAIN timestamps'
      ]_vars

\* C17 (as claimed): no call of get, set or clear raises.
C17_NeverRaises ==
    ret # Raised

\* C18 (as claimed): a task that waits for a lock waits for the lock of the
\* key its own call is about.
C18_OwnKeyLockOnly ==
    \A t \in Tasks :
        tpc[t] = "set_evict" => targ[t].oldest = targ[t].key

\* C19 (as claimed): a pass of a sweep that has been started removes every
\* entry older than ttl and no other entry, and then sleeps for ttl.
C19_SweepRemovesExpired ==
    [][\A s \in Sweeps :
          CleanupLoop(s) =>
              /\ DOMAIN cache' =
                    {k \in DOMAIN cache : ~(now - timestamps[k] > config.cache.ttl)}
              /\ \A k \in DOMAIN cache' :
                    cache'[k] = cache[k] /\ timestamps'[k] = timestamps[k]
              /\ sweep'[s].st = "sleeping"
              /\ sweep'[s].wake = WakeAt
      ]_vars

\* The sweep task a stop_cleanup call of task t is about.
StoppedTask(t) == IF tpc[t] = "stop_await" THEN targ[t].task ELSE cleanupTask

\* C20: in the step in which stop_cleanup returns, the sweep task it cancelled
\* has ended and _cleanup_task is None; a stop_cleanup with no task registered
\* returns at once; a suspended stop_cleanup awaits a task that has been
\* cancelled, which ends when it is scheduled next; and a task that has been
\* cancelled never runs a pass.
C20_StopCleanup ==
    [][/\ \A t \in Tasks :
            /\ ((StopCleanup(t) \/ StopResume(t)) /\ tpc'[t] = "idle") =>
                  /\ cleanupTask' = 0
                  /\ StoppedTask(t) # 0 => sweep'[StoppedTask(t)].st \in {"done", "none"}
            /\ (StopCleanup(t) /\ cleanupTask = 0) => tpc'[t] = "idle"
            /\ tpc'[t] = "stop_await" => sweep'[targ'[t].task].st \in {"cancelled", "done"}
       /\ \A s \in Sweeps :
            sweep[s].st \in {"cancelled", "done"} =>
                /\ ~CleanupLoop(s)
                /\ sweep'[s].st \in {"cancelled", "done", "none"}
      ]_vars

C20_Witness ==
    /\ cleanupTask = 0
    /\ \E t \in Tasks : tpc[t] = "stop_await" /\ sweep[targ[t].task].st = "done"
    /\ \E u \in Tasks : tpc[u] = "idle"

\* C21: _retry_operation calls the operation at most max_attempts times; once
\* a call of the operation has returned, on attempt k, no further call is
\* made (the operation has been called exactly k times, the k - 1 earlier
\* calls having failed) and _retry_operation has returned the value of that
\* k-th call.
C21_StopsAtFirstSuccess ==
    /\ Len(tries) <= (IF config.max_attempts > 0 THEN config.max_attempts ELSE 0)
    /\ \A k \in 1..Len(tries) :
          ~IsFailure(tries[k]) =>
              /\ Len(tries) = k
              /\ \A j \in 1..(k - 1) : IsFailure(tries[j])
              /\ rpc = "returned"
              /\ outcome = tries[k]

C21_Witness ==
    /\ config.max_attempts = MaxTries
    /\ rpc = "returned"
    /\ Len(tries) = MaxTries - 1
    /\ outcome = Returned(MaxTries - 1)

RECURSIVE Sum(_)
Sum(s) == IF s = <<>> THEN 0 ELSE Head(s) + Sum(Tail(s))

\* C22 (as claimed): the wait after failed attempt i (0-indexed) is
\* delay * 2^i; with max_attempts = 3 and delay = 1, a call whose operation
\* failed twice and then succeeded has waited 1 + 2 = 3 in total.
C22_ExponentialBackoff ==
    /\ \A i \in 1..Len(waits) : waits[i] = config.delay * 2^(i - 1)
    /\ (/\ config.max_attempts = 3 /\ config.delay = 1
        /\ rpc = "returned" /\ Len(tries) = 3) => Sum(waits) = 3

\* C23: when every call of the operation raised and max_attempts = N >= 1,
\* _retry_operation has called it exactly N times and raises the exception
\* object of the N-th call, whatever the classes of the exceptions; and it
\* raises in no other case.
C23_LastErrorPropagates ==
    /\ rpc = "raised" =>
          /\ Len(tries) = config.max_attempts
          /\ \A j \in 1..Len(tries) : IsFailure(tries[j])
          /\ outcome = tries[Len(tries)]
    /\ (/\ config.max_attempts >= 1
        /\ Len(tries) = config.max_attempts
        /\ \A j \in 1..Len(tries) : IsFailure(tries[j])) =>
          rpc = "raised"

C23_Witness ==
    /\ config.max_attempts = MaxTries
    /\ rpc = "raised"
    /\ Len(tries) = MaxTries
    /\ tries[1].kind # tries[MaxTries].kind
    /\ outcome = tries[MaxTries]

C25_UnregisteredNotRetried ==
    [][\A p \in Procs :
          (pc[p] \in Sites /\ Backend(pc[p]) \notin clients) =>
              /\ attempt[p] = 0
              /\ attempt'[p] = 0
              /\ called'[p] = called[p]
              /\ pc'[p] # pc[p] =>
                    /\ pc'[p] = "done"
                    /\ result'[p] = [error |-> KeyError(Backend(pc[p]))]
      ]_vars

C25_Witness ==
    \E p \in Procs :
        /\ Done(p)
        /\ config.max_attempts = MaxAttempts
        /\ "faiss" \notin clients
        /\ called[p] = {"exact", "embed"}
        /\ result[p] = [error |-> KeyError("faiss")]

\* C26 (as claimed): close() never raises, and once it is over close() has
\* been called on every client of the registry.
C26_CloseAttemptsAll ==
    life \in {"closed", "close_raised"} =>
        /\ life = "closed"
        /\ attempted = clients

\* C27: a clear() returns at once and leaves the cache without any value and
\* without any timestamp, whatever locks are held; and a get of any key on a
\* cache in that state returns None and leaves it empty.
C27_ClearEmpties ==
    [][\A t \in Tasks :
          /\ Clear(t) =>
                /\ cache' = NoEntries
                /\ timestamps' = NoEntries
                /\ tpc'[t] = "idle"
                /\ ret' = None
          /\ \A k \in Keys :
                (CacheGet(t, k) /\ cache = NoEntries) =>
                    /\ tpc'[t] = "idle"
                    /\ ret' = None
                    /\ cache' = NoEntries
                    /\ timestamps' = NoEntries
      ]_vars

\* The cache is empty after it held an entry, in a run in which no entry can
\* expire and no set leaves the cache empty: a clear() has emptied it.
C27_Witness ==
    /\ cacheClass = "async"
    /\ config.cache.ttl > MaxTime
    /\ config.cache.max_size >= 1
    /\ DOMAIN locks # {}
    /\ cache = NoEntries
    /\ timestamps = NoEntries
    /\ \E t \in Tasks : tpc[t] = "set_lock"

\* ------------------------------------------------------------------ Cache (utils/cache.py), scheduled fairly
\* The event loop runs every task that is ready: a cancelled sweep task gets
\* its CancelledError, and a stop_cleanup whose awaited task has ended goes on.
CacheFair ==
    /\ CacheSpec
    /\ \A s \in Sweeps : WF_vars(SweepEnds(s))
    /\ \A t \in Tasks : WF_vars(StopResume(t))

\* C28 (as claimed): every call of set or get that is waiting for a lock
\* returns later, and every sweep pass that is waiting for a lock goes on
\* later.
C28_EveryCallCompletes ==
    /\ \A t \in Tasks :
          (tpc[t] \in {"set_lock", "set_evict", "get_remove"}) ~> (tpc[t] = "idle")
    /\ \A s \in Sweeps :
          (sweep[s].st = "waiting") ~> (sweep[s].st # "waiting")

\* C29 (as claimed): while two calls for the same description are both in
\* flight and every backend call of either has succeeded, the two together
\* have issued at most one graph write and at most one vector add.
C29_AtMostOneWrite ==
    \A p, q \in Procs :
        (/\ p # q
         /\ desc[p] = desc[q]
         /\ pc[p] \in Sites /\ pc[q] \in Sites
         /\ clean[p] /\ clean[q]) =>
            /\ graphWrites[p] + graphWrites[q] <= 1
            /\ vectorAdds[p] + vectorAdds[q] <= 1

\* The CREATE query of the call was answered without an error: the call went
\* on to the vector add and no backend answered it with an error dict.
GraphWritten(p) == "store_vector" \in called[p] /\ ~tookError[p]

\* C30 (as claimed): a call that returns after its graph write succeeded has
\* also added the vector and returns the new solution, which is in the cache
\* when the router has one; a call that returns an error has made no graph
\* write.
C30_AllOrNothing ==
    \A p \in Procs :
        Done(p) =>
            /\ GraphWritten(p) =>
                  /\ Source(result[p]) = "new_solution"
                  /\ HasCache => Cached(p)
            /\ IsError(result[p]) => ~GraphWritten(p)

\* C31 (as claimed): a set of a key that is in the cache leaves the entry of
\* every other key in the cache, with its value.
C31_OverwriteKeepsOthers ==
    [][\A t \in Tasks, k \in Keys, v \in Vals :
          (/\ CacheSet(t, k, v) \/ RouterCacheSet(t, k, v)
           /\ k \in DOMAIN cache) =>
              \A j \in DOMAIN cache \ {k} :
                  /\ j \in DOMAIN cache'
                  /\ cache'[j] = cache[j]
      ]_vars

\* C32 (as claimed): when _retry_operation has returned, the operation has
\* been called, its last call returned, and the result is that call's value.
C32_ReturnsOnlySuccess ==
    rpc = "returned" =>
        /\ tries # <<>>
        /\ ~IsFailure(tries[Len(tries)])
        /\ outcome = tries[Len(tries)]

\* An entry of the cache that get returns: stored and younger than ttl.
Live(k) == k \in DOMAIN cache /\ now - timestamps[k] < config.cache.ttl

\* C33: a get of a live entry, of either class, returns the stored value and
\* changes no value, no timestamp and no key; a handle_problem call that
\* finds a live entry returns it as source cache and writes nothing to the
\* cache. So the timestamp of an entry stays that of its last set, whatever
\* is read.
C33_HitChangesNothing ==
    [][/\ \A t \in Tasks, k \in Keys \cup Descs :
            ((CacheGet(t, k) \/ RouterCacheGet(t, k)) /\ Live(k)) =>
                /\ tpc'[t] = "idle"
                /\ ret' = cache[k]
                /\ UNCHANGED cacheVars
       /\ \A p \in Procs :
            (Lookup(p) /\ HasCache /\ Live(desc[p])) =>
                /\ pc'[p] = "done"
                /\ result'[p] = [source |-> "cache", data |-> cache[desc[p]]]
                /\ UNCHANGED cacheVars
      ]_vars

C33_Witness ==
    \E p \in Procs :
        /\ Done(p)
        /\ Source(result[p]) = "cache"
        /\ Live(desc[p])
        /\ timestamps[desc[p]] < endAt[p]
        /\ ret = cache[desc[p]]

\* C34: in every state of a cache of either class the keys that have a value
\* are the keys that have a timestamp, and they are the keys of the
\* iteration order, whatever sets, gets, clears, evictions and sweep passes
\* have run and whatever calls are suspended.
C34_SameKeys ==
    /\ DOMAIN cache = DOMAIN timestamps
    /\ DOMAIN cache = Range(order)

C34_Witness ==
    /\ cacheClass = "async"
    /\ cache # NoEntries
    /\ \E k \in DOMAIN locks : k \notin DOMAIN cache
    /\ \E s \in Sweeps : sweep[s].st = "sleeping" /\ sweep[s].wake > 0
    /\ \E t \in Tasks : tpc[t] = "set_evict"
    /\ now > 0

\* The sweep tasks that have been created and have not ended.
Running == {s \in DOMAIN sweep : sweep[s].st \in {"sleeping", "waiting", "cancelled"}}

\* C35: at most one sweep task of a cache is alive at any time, whatever
\* start_cleanup and stop_cleanup calls have been made and are suspended.
C35_OneSweep == Cardinality(Running) <= 1

\* The two parts about start_cleanup alone: with a task registered it creates
\* no task, and with none registered it creates a fresh one and registers it.
C35_StartCreatesOnce ==
    [][\A t \in Tasks : StartCleanup(t) =>
          IF cleanupTask # 0
          THEN UNCHANGED <<sweep, cleanupTask>>
          ELSE /\ cleanupTask' \notin Created
               /\ sweep'[cleanupTask'].st = "sleeping"
               /\ \A s \in DOMAIN sweep \ {cleanupTask'} : sweep'[s] = sweep[s]
      ]_vars

\* C36: while BaseMCPServer.run serves requests the sweep task that
\* initialize started is registered and alive.
C36_SweepRunsWhileServing ==
    phase = "serving" =>
        /\ cleanupTask # 0
        /\ sweep[cleanupTask].st \in {"sleeping", "waiting"}

\* C36, second part: a sweep task that is alive is stopped by no step other
\* than the stop_cleanup of _cleanup.
C36_StopsOnlyAtCleanup ==
    [][\A s \in DOMAIN sweep :
          (sweep[s].st \in {"sleeping", "waiting"} /\ sweep'[s].st \notin {"sleeping", "waiting"})
              => phase = "cleanup"
      ]_vars

\* C37: no step of the async cache removes a key from the lock map, and every
\* key that has an entry has a lock: the lock map holds every key that was
\* ever set or removed.
C37_LocksOnlyGrow ==
    [][/\ DOMAIN locks \subseteq DOMAIN locks'
       /\ cacheClass = "async" => DOMAIN cache' \subseteq DOMAIN locks'
      ]_vars

C37_Witness ==
    /\ cacheClass = "async"
    /\ Cardinality(DOMAIN locks) > config.cache.max_size
    /\ config.cache.max_size > 0
    /\ cache = NoEntries
    /\ ret = None
    /\ \A t \in Tasks : tpc[t] = "idle"

\* C38: a wrapper call whose key has a live entry returns the stored value
\* without invoking the function and without writing the cache.
C38_HitSkipsFunction ==
    [][\A t \in Tasks, k \in Keys :
          (WrapperCall(t, k) /\ Live(k)) =>
              /\ invoked' = FALSE
              /\ wret' = cache[k]
              /\ tpc'[t] = "idle"
              /\ UNCHANGED cacheVars
      ]_vars

\* The same for the stored values other than None, and the miss: the function
\* is invoked, and what it returns is stored under the key and returned.
C38_HitSkipsFunctionNotNone ==
    [][\A t \in Tasks, k \in Keys :
          /\ (WrapperCall(t, k) /\ Live(k) /\ cache[k] # None) =>
                /\ invoked' = FALSE
                /\ wret' = cache[k]
                /\ tpc'[t] = "idle"
                /\ UNCHANGED cacheVars
          /\ (WrapperCall(t, k) /\ k \notin DOMAIN cache) =>
                /\ invoked' = TRUE
                /\ tpc'[t] = "func"
          /\ \A v \in Results :
                (FuncReturns(t, v) /\ tpc'[t] = "idle" /\ targ[t].key = k) =>
                    /\ cache'[k] = v
                    /\ timestamps'[k] = now
                    /\ wret' = v
      ]_vars

\* C39: _execute_with_retry calls the operation at most max_retries times;
\* every call but the last raised a ServiceUnavailable; a ServiceUnavailable
\* at call number max_retries and any other exception at any call are raised
\* to the caller as they are, with no further call; and one second is slept
\* between two calls.
C39_RetriesOnlyServiceUnavailable ==
    /\ Len(tries) <= config.max_retries
    /\ \A i \in 1..(Len(tries) - 1) : tries[i].kind \in ServiceUnavailableKinds
    /\ \A i \in 1..Len(waits) : waits[i] = 1
    /\ tries # <<>> =>
          LET last == tries[Len(tries)]
          IN  /\ last.kind \in ServiceUnavailableKinds =>
                    IF Len(tries) = config.max_retries
                    THEN rpc = "raised"
                    ELSE rpc \in {"sleep", "operation"}
              /\ last.kind \in GraphExceptionKinds \ ServiceUnavailableKinds => rpc = "raised"
              /\ last.kind = "value" => rpc = "returned"
              /\ rpc \in {"raised", "returned"} => outcome = last

C39_Witness ==
    /\ rpc = "raised"
    /\ Len(tries) = config.max_retries
    /\ Len(tries) >= 2
    /\ Len(waits) = Len(tries) - 1
    /\ \A i \in 1..Len(tries) : tries[i].kind \in ServiceUnavailableKinds
    /\ outcome = tries[Len(tries)]

====
